---- MODULE Spec2Model ----
(***************************************************************************)
(* Model of the Dreo integration's state synchronisation engine:           *)
(*   - DreoWebSocket (websocket.py): start/stop, the reconnect loop _run,   *)
(*     _connect_and_listen, _ping_loop and _process_message;               *)
(*   - the dispatch callback on_ws_message and the startup code of         *)
(*     __init__.py (async_setup_entry, async_setup_device_coordinator,     *)
(*     _async_create_websocket, async_unload_entry);                       *)
(*   - the per-device coordinator (coordinator.py is not part of the       *)
(*     sources at hand; its poll and push-merge are modelled from the      *)
(*     specification, section 4.4).                                        *)
(* asyncio is modelled as cooperative tasks that interleave only at their  *)
(* awaits; a cancellation request is delivered as CancelledError at the    *)
(* task's next resumption.                                                 *)
(***************************************************************************)
EXTENDS Integers, Sequences, FiniteSets, TLC

\* ------------------------------------------------------------------ bounds
MaxStarts == 2      \* start() calls on one DreoWebSocket
MaxConn == 3        \* connection attempts (ClientSession objects created)
MaxStops == 2       \* stop() calls

\* --------------------------------------------------------------- constants
Devices == {"A", "B"}            \* device identifiers known to the registry
Keys == {"power", "mode"}        \* raw attribute keys
GoodVals == {0, 1}
BadVal == 9                      \* a value the data-processor rejects
NoData == [k \in {} |-> 0]       \* the empty mapping {}

VARIABLES
    \* DreoWebSocket fields (websocket.py 111-117)
    running,        \* self._running
    wsRef,          \* self._ws: 0 = None, else the connection it belongs to
    sessRef,        \* self._session: 0 = None, else the connection id
    taskRef,        \* self._task: 0 = None, else the task id
    \* objects the fields refer to
    sessClosed,     \* [1..MaxConn -> BOOLEAN]: ClientSession.closed
    wsSt,           \* [1..MaxConn -> {"none","open","closed"}]: the socket of a session
    nConn,          \* ClientSession objects created so far (= connect attempts)
    nStarts,        \* tasks created so far by start()
    tasks,          \* [1..MaxStarts -> record]: the _run tasks
    stopPc,         \* where the running stop() call is suspended
    \* coordinators (registry, RawStateSnapshot, NormalizedDeviceState)
    coords,         \* keys of the coordinators dict
    raw,            \* coordinator.last_raw_state, "none" when None
    data,           \* coordinator.data, "none" when None
    notif,          \* parity of the number of listener notifications
    pollCount,      \* network polls performed per device
    pollPc,         \* per device: "idle", or "fetching" while a poll is in flight
    \* startup (async_setup_entry) and shutdown (async_unload_entry)
    setupPc,        \* position of async_setup_entry / async_unload_entry
    devList,        \* the device list returned by the login
    devIdx,         \* index of the next device of the list to set up
    websocket,      \* runtime_data.websocket: "unset", "none" or "created"
    \* history
    nExits,         \* returns of _connect_and_listen into _run (normal or raised)
    nStops,         \* stop() calls begun
    stopSince,      \* stop() was invoked after the last start()
    stopsDone,      \* stop() calls completed after the last start() (capped at 2)
    failedDevs,     \* devices whose seed was rejected or whose first poll failed
    log,            \* the writes to one coordinator's raw snapshot, in completion order
    ev,             \* the last step taken
    \* the inbound side of each socket
    inbox,          \* [Conns -> Seq(frame)]: text frames received and not yet read
    arrived,        \* history: every text frame received, in arrival order
    delivered       \* history: the frames handed to the callback, in call order

vars == <<running, wsRef, sessRef, taskRef, sessClosed, wsSt, nConn, nStarts,
          tasks, stopPc, coords, raw, data, notif, pollCount, pollPc, setupPc,
          devList, devIdx, websocket, nExits, nStops, stopSince, stopsDone,
          failedDevs, log, ev, inbox, arrived, delivered>>

wsVars == <<running, wsRef, sessRef, taskRef, sessClosed, wsSt, nConn, nStarts,
            tasks, stopPc, nExits, nStops, stopSince, stopsDone>>
coordVars == <<coords, raw, data, notif, pollCount, pollPc>>
setupVars == <<setupPc, devList, devIdx, websocket, failedDevs, log>>
netVars == <<inbox, arrived, delivered>>

Conns == 1..MaxConn
TaskIds == 1..MaxStarts

\* A task that does not exist yet.
NoTask == [pc |-> "none", conn |-> 0, exc |-> "none", cancel |-> FALSE, ping |-> "none"]

Ev(op, t) == [op |-> op, t |-> t, cls |-> "-", res |-> "-"]

Min(a, b) == IF a < b THEN a ELSE b

\* Optional mapping: None, or a dict.
None == [has |-> FALSE, m |-> NoData]
Some(m) == [has |-> TRUE, m |-> m]

\* ------------------------------------------------------- inbound frames
\* A text frame is described by what json.loads makes of it: "invalid" (not
\* JSON), a non-object JSON value, or an object with its two fields.
\* devicesn: "<none>" = field missing, "" = empty string, "<list>" = a JSON
\* array (truthy, unhashable), else a string.  reported: absent, a
\* non-mapping value, or a dict.
Absent == [t |-> "absent", d |-> NoData]
NonMap == [t |-> "str", d |-> NoData]
Dict(d) == [t |-> "dict", d |-> d]
Upd(k, v) == [x \in {k} |-> v]
NonObj(kind) == [json |-> kind, devicesn |-> "<none>", reported |-> Absent]
Obj(sn, rep) == [json |-> "object", devicesn |-> sn, reported |-> rep]

Frames ==
    { NonObj("invalid"), NonObj("number"), NonObj("string"), NonObj("array"),
      NonObj("null"),
      Obj("<none>", Dict(Upd("power", 1))),
      Obj("", Dict(Upd("power", 1))),
      Obj("A", Absent), Obj("A", NonMap), Obj("A", Dict(NoData)),
      Obj("A", Dict(Upd("power", 1))),
      Obj("A", Dict(Upd("power", BadVal))),
      Obj("B", Dict(Upd("mode", 1))),
      Obj("UNKNOWN", Dict(Upd("power", 1))),
      Obj("<list>", Dict(Upd("power", 1))) }

\* Python truthiness of data.get("devicesn") / hashability as a dict key.
Truthy(sn) == sn \notin {"<none>", ""}
Hashable(sn) == sn # "<list>"

\* _process_message up to the call of the callback:
\* "return" (frame dropped), "raise" (an exception escapes), "dispatch".
ProcessMessage(f) ==
    IF f.json = "invalid" THEN "return"                 \* except JSONDecodeError
    ELSE IF f.json # "object" THEN "raise"             \* data.get: AttributeError
    ELSE IF /\ Truthy(f.devicesn)
            /\ f.reported.t = "dict"
            /\ DOMAIN f.reported.d # {}
         THEN "dispatch"
         ELSE "return"

\* ------------------------------------------------------- data processor
\* The external per-model processor: rejects a snapshot holding a value it
\* cannot translate, else yields the normalized attributes.
ProcessorFails(m) == \E k \in DOMAIN m : m[k] = BadVal
ValName(v) == IF v = 0 THEN "off" ELSE "on"
Process(m) == [k \in DOMAIN m |-> ValName(m[k])]

\* Key-wise merge of a partial update onto a snapshot.
Merge(base, upd) ==
    [k \in (DOMAIN base) \cup (DOMAIN upd) |->
        IF k \in DOMAIN upd THEN upd[k] ELSE base[k]]

\* Variant of HandleWebsocketUpdate: a rejected merge is kept as the snapshot.
HandleWebsocketUpdateNoRollback(d, upd) ==
    LET base == IF raw[d].has THEN raw[d].m ELSE NoData
        merged == Merge(base, upd)
    IN  /\ raw' = [raw EXCEPT ![d] = Some(merged)]
        /\ IF ProcessorFails(merged)
           THEN UNCHANGED <<data, notif>>
           ELSE /\ data' = [data EXCEPT ![d] = Some(Process(merged))]
                /\ notif' = [notif EXCEPT ![d] = 1 - @]

\* coordinator.handle_websocket_update(reported): merge onto the stored raw
\* snapshot (or onto nothing), reprocess; on processor failure roll back and
\* drop the update without raising.
HandleWebsocketUpdate(d, upd) ==
    LET base == IF raw[d].has THEN raw[d].m ELSE NoData
        merged == Merge(base, upd)
    IN  IF ProcessorFails(merged)
        THEN UNCHANGED <<raw, data, notif>>
        ELSE /\ raw' = [raw EXCEPT ![d] = Some(merged)]
             /\ data' = [data EXCEPT ![d] = Some(Process(merged))]
             /\ notif' = [notif EXCEPT ![d] = 1 - @]

PushResult(d, upd) ==
    LET base == IF raw[d].has THEN raw[d].m ELSE NoData
    IN  IF ProcessorFails(Merge(base, upd)) THEN "rolled_back" ELSE "applied"

\* Variant of OnWsMessageResult: the lookup is coordinators[device_sn], which
\* raises KeyError for an identifier that is not registered.
OnWsMessageResultKeyError(sn, upd) ==
    IF ~Hashable(sn) \/ sn \notin coords THEN "cb_raised"
    ELSE PushResult(sn, upd)

\* on_ws_message(device_sn, reported): what the callback does to the
\* coordinators, and how it ends.
OnWsMessageResult(sn, upd) ==
    IF ~Hashable(sn) THEN "cb_raised"          \* coordinators.get: TypeError
    ELSE IF sn \notin coords THEN "no_coordinator"
    ELSE PushResult(sn, upd)

OnWsMessage(sn, upd) ==
    IF Hashable(sn) /\ sn \in coords
    THEN HandleWebsocketUpdate(sn, upd) /\ UNCHANGED <<coords, pollCount, pollPc>>
    ELSE UNCHANGED coordVars

\* ------------------------------------------------- DreoWebSocket: _run
\* `while self._running` (websocket.py 141) and `if self._running` (150).
LoopGuard(r) == r

\* Variant of Survives: only a normal return is survived.
SurvivesNormalOnly(exc) == exc = "none"

\* `except Exception` (144): the exits of _connect_and_listen that _run
\* survives.  "none" = normal return, "exc" = an Exception, "cancel" =
\* CancelledError (a BaseException, not caught).
Survives(exc) == exc \in {"none", "exc"}

\* _run after _connect_and_listen has been left with `exc` (144-151, 141):
\* sleep in Backoff while running, leave the loop when not, die on
\* CancelledError.  tk is the task table to update.
RunAfter(t, exc, tk) ==
    IF Survives(exc)
    THEN /\ nExits' = nExits + 1
         /\ tasks' = [tk EXCEPT ![t].pc = IF LoopGuard(running) THEN "backoff" ELSE "done",
                                ![t].exc = "none", ![t].conn = 0]
    ELSE /\ UNCHANGED nExits
         /\ tasks' = [tk EXCEPT ![t].pc = IF exc = "cancel" THEN "cancelled" ELSE "crashed",
                                ![t].exc = "none", ![t].conn = 0]

\* Variant of Finally: the references are cleared without closing the session.
FinallySkipsClose(t, exc, tk) ==
    /\ wsRef' = 0
    /\ sessRef' = 0
    /\ UNCHANGED sessClosed
    /\ RunAfter(t, exc, tk)

\* The outer finally of _connect_and_listen (178-182), entered with `exc`
\* pending: close self._session if it is open (an await), then clear the
\* two references.
Finally(t, exc, tk) ==
    IF sessRef # 0 /\ ~sessClosed[sessRef]
    THEN /\ sessClosed' = [sessClosed EXCEPT ![sessRef] = TRUE]
         /\ tasks' = [tk EXCEPT ![t].pc = "closing", ![t].exc = exc]
         /\ UNCHANGED <<wsRef, sessRef, nExits>>
    ELSE /\ wsRef' = 0
         /\ sessRef' = 0
         /\ UNCHANGED sessClosed
         /\ RunAfter(t, exc, tk)

\* The top of the loop in _run (141) through ClientSession() and the call of
\* ws_connect (161-163), where the task suspends.
RunLoop(t) ==
    IF tasks[t].cancel
    THEN /\ tasks' = [tasks EXCEPT ![t].pc = "cancelled", ![t].cancel = FALSE]
         /\ UNCHANGED <<sessRef, nConn>>
    ELSE IF LoopGuard(running)
    THEN /\ nConn < MaxConn
         /\ nConn' = nConn + 1
         /\ sessRef' = nConn + 1
         /\ tasks' = [tasks EXCEPT ![t].pc = "connecting", ![t].conn = nConn + 1]
    ELSE /\ tasks' = [tasks EXCEPT ![t].pc = "done"]
         /\ UNCHANGED <<sessRef, nConn>>

\* First step of the task created by start().
TaskBegin(t) ==
    /\ tasks[t].pc = "new"
    /\ RunLoop(t)
    /\ UNCHANGED netVars
    /\ ev' = Ev("begin", t)
    /\ UNCHANGED <<running, wsRef, taskRef, sessClosed, wsSt, nStarts, stopPc,
                   nExits, nStops, stopSince, stopsDone>>
    /\ UNCHANGED <<coordVars, setupVars>>

\* asyncio.sleep(RECONNECT_DELAY) returns (151), or is cancelled.
BackoffWake(t) ==
    /\ tasks[t].pc = "backoff"
    /\ RunLoop(t)
    /\ UNCHANGED netVars
    /\ ev' = Ev("wake", t)
    /\ UNCHANGED <<running, wsRef, taskRef, sessClosed, wsSt, nStarts, stopPc,
                   nExits, nStops, stopSince, stopsDone>>
    /\ UNCHANGED <<coordVars, setupVars>>

\* ws_connect returns or raises (163-166).  A connect on a session that was
\* closed meanwhile fails.
ConnectResult(t, ok) ==
    /\ tasks[t].pc = "connecting"
    /\ LET c == tasks[t].conn IN
       IF tasks[t].cancel
       THEN /\ Finally(t, "cancel", [tasks EXCEPT ![t].cancel = FALSE])
            /\ UNCHANGED wsSt
       ELSE IF ok
       THEN /\ ~sessClosed[c]
            /\ wsRef' = c
            /\ wsSt' = [wsSt EXCEPT ![c] = "open"]
            /\ tasks' = [tasks EXCEPT ![t].pc = "listening", ![t].ping = "live"]
            /\ UNCHANGED <<sessRef, sessClosed, nExits>>
       ELSE /\ Finally(t, "exc", tasks)
            /\ UNCHANGED wsSt
    /\ UNCHANGED netVars
    /\ ev' = Ev("connect", t)
    /\ UNCHANGED <<running, taskRef, nConn, nStarts, stopPc, nStops, stopSince, stopsDone>>
    /\ UNCHANGED <<coordVars, setupVars>>

\* ------------------------------------- DreoWebSocket: the read loop
\* Variant of CancelPing: the keep-alive task is left running.
CancelPingSkipped(p) == p

\* ping_task.cancel() in the inner finally (177).
CancelPing(p) == IF p = "live" THEN "cancelled" ELSE p

PingCancelled(t, tk) == [tk EXCEPT ![t].ping = CancelPing(@)]

\* The socket of connection c can still deliver frames.
Readable(c) == wsSt[c] = "open" /\ ~sessClosed[c]

\* How a frame falls under the malformed-frame categories.
FrameClass(f) ==
    IF f.json = "invalid" THEN "notjson"
    ELSE IF f.json # "object" THEN "nonobject"
    ELSE IF f.devicesn = "<none>" THEN "nodevice"
    ELSE IF f.reported.t # "dict" \/ DOMAIN f.reported.d = {} THEN "badreported"
    ELSE IF f.devicesn = "" THEN "emptydevice"
    ELSE "wellformed"

\* How the handling of a TEXT frame ends (170, 193-209).
TextResult(f) ==
    LET pm == ProcessMessage(f) IN
    IF pm = "return" THEN "dropped"
    ELSE IF pm = "raise" THEN "decode_raised"
    ELSE OnWsMessageResult(f.devicesn, f.reported.d)

\* A TEXT frame arrives (168-170): _process_message and the callback run
\* to completion before the next frame is awaited; an exception leaves the
\* loop through both finally blocks.
ReceiveTextBody(t, f) ==
    /\ tasks[t].pc = "listening"
    /\ ~tasks[t].cancel
    /\ Readable(tasks[t].conn)
    /\ LET res == TextResult(f) IN
       /\ ev' = [op |-> "text", t |-> t, cls |-> FrameClass(f), res |-> res,
                 sn |-> f.devicesn]
       /\ IF res \in {"decode_raised", "cb_raised"}
          THEN /\ Finally(t, "exc", PingCancelled(t, tasks))
               /\ UNCHANGED <<coordVars, setupVars>>
          ELSE /\ IF res = "dropped"
                  THEN UNCHANGED coordVars
                  ELSE OnWsMessage(f.devicesn, f.reported.d)
               /\ UNCHANGED <<tasks, wsRef, sessRef, sessClosed, nExits>>
    /\ UNCHANGED <<running, taskRef, wsSt, nConn, nStarts, stopPc, nStops,
                   stopSince, stopsDone>>
    /\ UNCHANGED setupVars

\* The frame is read as it arrives.
ReceiveText(t, f) ==
    /\ ReceiveTextBody(t, f)
    /\ UNCHANGED netVars

\* A frame that is neither TEXT nor CLOSED/ERROR (binary, ping, pong) is
\* ignored (169-175).
ReceiveOther(t) ==
    /\ tasks[t].pc = "listening"
    /\ ~tasks[t].cancel
    /\ Readable(tasks[t].conn)
    /\ UNCHANGED netVars
    /\ ev' = Ev("other", t)
    /\ UNCHANGED wsVars
    /\ UNCHANGED <<coordVars, setupVars>>

\* The loop ends: "close" = the iterator stops (remote or local close),
\* "error" = an ERROR frame (break, 171-175), "raise" = the iterator raises.
ReceiveEnd(t, how) ==
    /\ tasks[t].pc = "listening"
    /\ ~tasks[t].cancel
    /\ wsSt' = [wsSt EXCEPT ![tasks[t].conn] = "closed"]
    /\ Finally(t, IF how = "raise" THEN "exc" ELSE "none", PingCancelled(t, tasks))
    /\ UNCHANGED netVars
    /\ ev' = Ev(how, t)
    /\ UNCHANGED <<running, taskRef, nConn, nStarts, stopPc, nStops, stopSince, stopsDone>>
    /\ UNCHANGED <<coordVars, setupVars>>

\* CancelledError is raised at the await of the next frame.
ListenCancelled(t) ==
    /\ tasks[t].pc = "listening"
    /\ tasks[t].cancel
    /\ Finally(t, "cancel", PingCancelled(t, [tasks EXCEPT ![t].cancel = FALSE]))
    /\ UNCHANGED netVars
    /\ ev' = Ev("cancelled", t)
    /\ UNCHANGED <<running, taskRef, wsSt, nConn, nStarts, stopPc, nStops,
                   stopSince, stopsDone>>
    /\ UNCHANGED <<coordVars, setupVars>>

\* `await self._session.close()` in the finally returns (180-182); a
\* CancelledError raised at that await skips the two assignments.
CloseResume(t) ==
    /\ tasks[t].pc = "closing"
    /\ IF tasks[t].cancel
       THEN /\ tasks' = [tasks EXCEPT ![t].pc = "cancelled", ![t].cancel = FALSE,
                                      ![t].exc = "none", ![t].conn = 0]
            /\ UNCHANGED <<wsRef, sessRef, nExits>>
       ELSE /\ wsRef' = 0
            /\ sessRef' = 0
            /\ RunAfter(t, tasks[t].exc, tasks)
    /\ UNCHANGED netVars
    /\ ev' = Ev("closed", t)
    /\ UNCHANGED <<running, taskRef, sessClosed, wsSt, nConn, nStarts, stopPc,
                   nStops, stopSince, stopsDone>>
    /\ UNCHANGED <<coordVars, setupVars>>

\* ------------------------------------------ DreoWebSocket: _ping_loop
\* Variant of PingSendFailed: the failure tears the session down.
PingSendFailedEscalates(t) ==
    /\ Finally(t, "exc", [tasks EXCEPT ![t].ping = "dead"])
    /\ UNCHANGED wsSt

\* send_str raised (190-191): the exception is swallowed and the driver ends.
PingSendFailed(t) ==
    /\ tasks' = [tasks EXCEPT ![t].ping = "dead"]
    /\ UNCHANGED <<wsRef, sessRef, sessClosed, wsSt, nExits>>

\* One turn of the ping loop (187-189).
Ping(t, ok) ==
    /\ tasks[t].ping = "live"
    /\ IF wsRef # 0 /\ wsSt[wsRef] # "closed"
       THEN IF ok
            THEN UNCHANGED <<tasks, wsRef, sessRef, sessClosed, wsSt, nExits>>
            ELSE PingSendFailed(t)
       ELSE /\ tasks' = [tasks EXCEPT ![t].ping = "ended"]
            /\ UNCHANGED <<wsRef, sessRef, sessClosed, wsSt, nExits>>
    /\ UNCHANGED netVars
    /\ ev' = [Ev("ping", t) EXCEPT !.res =
                 IF wsRef = 0 \/ wsSt[wsRef] = "closed" THEN "ended"
                 ELSE IF ok THEN "sent" ELSE "failed"]
    /\ UNCHANGED <<running, taskRef, nConn, nStarts, stopPc, nStops, stopSince, stopsDone>>
    /\ UNCHANGED <<coordVars, setupVars>>

\* ------------------------------------------ DreoWebSocket: start, stop
\* start() (124-127): no await, so one step.
StartFields ==
    /\ running' = TRUE
    /\ nStarts' = nStarts + 1
    /\ taskRef' = nStarts + 1
    /\ tasks' = [tasks EXCEPT ![nStarts + 1] = [NoTask EXCEPT !.pc = "new"]]
    /\ stopSince' = FALSE
    /\ stopsDone' = 0
    /\ UNCHANGED <<wsRef, sessRef, sessClosed, wsSt, nConn, stopPc, nExits, nStops>>

StartBody ==
    /\ StartFields
    /\ UNCHANGED netVars
    /\ ev' = Ev("start", nStarts + 1)
    /\ UNCHANGED <<coordVars, setupVars>>

\* The one call of start() the integration makes (__init__.py 96-97).
Start ==
    /\ nStarts = 0
    /\ StartBody

\* A further start() on the same object; nothing in start() forbids it.
Restart ==
    /\ nStarts >= 1
    /\ nStarts < MaxStarts
    /\ StartBody

\* Variant of StopRunning: the flag is left as it was.
StopRunningKept == running

\* The value stop() stores in self._running (131).
StopRunning == FALSE

\* Variant of StopCancel: the task is not cancelled.
StopCancelSkipped ==
    /\ UNCHANGED tasks
    /\ stopPc' = "idle"
    /\ stopsDone' = Min(stopsDone + 1, 2)

\* `if self._task: self._task.cancel()` (136-137), then stop() returns.
StopCancel ==
    /\ tasks' = IF taskRef # 0 /\ tasks[taskRef].pc \notin {"done", "cancelled", "crashed"}
                THEN [tasks EXCEPT ![taskRef].cancel = TRUE]
                ELSE tasks
    /\ stopPc' = "idle"
    /\ stopsDone' = Min(stopsDone + 1, 2)

\* `if self._session and not self._session.closed: await ...close()` (134-135).
StopSession ==
    IF sessRef # 0 /\ ~sessClosed[sessRef]
    THEN /\ sessClosed' = [sessClosed EXCEPT ![sessRef] = TRUE]
         /\ stopPc' = "session_close"
         /\ UNCHANGED <<tasks, stopsDone>>
    ELSE /\ UNCHANGED sessClosed
         /\ StopCancel

\* stop() is called (129-133) and runs to its first await or to its end.
StopCallFields ==
    /\ stopPc = "idle"
    /\ nStops < MaxStops
    /\ nStops' = nStops + 1
    /\ running' = StopRunning
    /\ stopSince' = TRUE
    /\ IF wsRef # 0 /\ wsSt[wsRef] # "closed"
       THEN /\ wsSt' = [wsSt EXCEPT ![wsRef] = "closed"]
            /\ stopPc' = "ws_close"
            /\ UNCHANGED <<sessClosed, tasks, stopsDone>>
       ELSE /\ UNCHANGED wsSt
            /\ StopSession
    /\ UNCHANGED <<wsRef, sessRef, taskRef, nConn, nStarts, nExits>>

StopCall ==
    /\ StopCallFields
    /\ UNCHANGED netVars
    /\ ev' = Ev("stop", 0)
    /\ UNCHANGED <<coordVars, setupVars>>

\* `await self._ws.close()` returns (133).
StopAfterWsClose ==
    /\ stopPc = "ws_close"
    /\ StopSession
    /\ UNCHANGED netVars
    /\ ev' = Ev("stop", 0)
    /\ UNCHANGED <<running, wsRef, sessRef, taskRef, wsSt, nConn, nStarts,
                   nExits, nStops, stopSince>>
    /\ UNCHANGED <<coordVars, setupVars>>

\* `await self._session.close()` returns (135).
StopAfterSessionClose ==
    /\ stopPc = "session_close"
    /\ StopCancel
    /\ UNCHANGED netVars
    /\ ev' = Ev("stop", 0)
    /\ UNCHANGED <<running, wsRef, sessRef, taskRef, sessClosed, wsSt, nConn,
                   nStarts, nExits, nStops, stopSince>>
    /\ UNCHANGED <<coordVars, setupVars>>

\* ------------------------------------------------------ specification
\* The registry as startup leaves it for two seeded devices.
SeedState == [k \in Keys |-> 0]

InitWs ==
    /\ running = FALSE
    /\ wsRef = 0
    /\ sessRef = 0
    /\ taskRef = 0
    /\ sessClosed = [c \in Conns |-> FALSE]
    /\ wsSt = [c \in Conns |-> "none"]
    /\ nConn = 0
    /\ nStarts = 0
    /\ tasks = [t \in TaskIds |-> NoTask]
    /\ stopPc = "idle"
    /\ nExits = 0
    /\ nStops = 0
    /\ stopSince = FALSE
    /\ stopsDone = 0
    /\ ev = Ev("init", 0)
    /\ inbox = [c \in Conns |-> <<>>]
    /\ arrived = [c \in Conns |-> <<>>]
    /\ delivered = [c \in Conns |-> <<>>]

\* Startup is over and has left a DreoWebSocket that was not started yet.
InitAfterSetup ==
    /\ setupPc = "done"
    /\ devList = <<>>
    /\ devIdx = 1
    /\ websocket = "created"
    /\ failedDevs = {}
    /\ log = <<>>
    /\ pollCount = [d \in Devices |-> 0]
    /\ pollPc = [d \in Devices |-> "idle"]

Init ==
    /\ InitWs
    /\ InitAfterSetup
    /\ coords = Devices
    /\ raw = [d \in Devices |-> Some(SeedState)]
    /\ data = [d \in Devices |-> Some(Process(SeedState))]
    /\ notif = [d \in Devices |-> 0]

\* The steps of one supervisor task other than the reading of a text frame.
TaskStepBase(t) ==
    \/ TaskBegin(t)
    \/ BackoffWake(t)
    \/ \E ok \in BOOLEAN : ConnectResult(t, ok)
    \/ ReceiveOther(t)
    \/ \E how \in {"close", "error", "raise"} : ReceiveEnd(t, how)
    \/ ListenCancelled(t)
    \/ CloseResume(t)
    \/ \E ok \in BOOLEAN : Ping(t, ok)

\* The steps of one supervisor task, with the text frames drawn from F.
TaskStepOver(t, F) ==
    \/ TaskStepBase(t)
    \/ \E f \in F : ReceiveText(t, f)

TaskStep(t) == TaskStepOver(t, Frames)

StopStep ==
    \/ StopCall
    \/ StopAfterWsClose
    \/ StopAfterSessionClose

Next ==
    \/ Start
    \/ StopStep
    \/ \E t \in TaskIds : TaskStep(t)

Spec == Init /\ [][Next]_vars

\* The class driven through any sequence of calls: start() may be called
\* again on an object that was already started.
ApiFrames == {NonObj("invalid"), NonObj("null"), Obj("UNKNOWN", Dict(Upd("power", 1)))}

NextApi ==
    \/ Start
    \/ Restart
    \/ StopStep
    \/ \E t \in TaskIds : TaskStepOver(t, ApiFrames)

SpecApi == Init /\ [][NextApi]_vars

\* --------------------------------------------- frames in arrival order
MaxFrames == 2      \* text frames received in all

\* Text frames received so far on the sockets 1..c.
RECURSIVE NArrived(_)
NArrived(c) == IF c = 0 THEN 0 ELSE Len(arrived[c]) + NArrived(c - 1)

OrderFrames ==
    { Obj("A", Dict(Upd("power", 1))), Obj("B", Dict(Upd("mode", 1))),
      NonObj("invalid") }

\* A text frame reaches the socket of connection c and is queued there
\* until the read loop asks for it.
Arrive(c, f) ==
    /\ Readable(c)
    /\ NArrived(MaxConn) < MaxFrames
    /\ inbox' = [inbox EXCEPT ![c] = Append(@, f)]
    /\ arrived' = [arrived EXCEPT ![c] = Append(@, f)]
    /\ ev' = Ev("arrive", 0)
    /\ UNCHANGED delivered
    /\ UNCHANGED <<wsVars, coordVars, setupVars>>

\* The callback was invoked for the frame (it returned or raised).
CallbackInvoked(f) == TextResult(f) \notin {"dropped", "decode_raised"}

\* Variant of ReceiveNext: the frame is taken off the socket and its
\* processing is left to a task of its own, which has not run yet.
ReceiveNextDeferred(t) ==
    LET c == tasks[t].conn IN
    /\ tasks[t].pc = "listening"
    /\ ~tasks[t].cancel
    /\ Readable(c)
    /\ inbox[c] # <<>>
    /\ inbox' = [inbox EXCEPT ![c] = Tail(@)]
    /\ ev' = Ev("text_deferred", t)
    /\ UNCHANGED <<arrived, delivered>>
    /\ UNCHANGED <<wsVars, coordVars, setupVars>>

\* `async for msg in self._ws` yields the oldest queued text frame and the
\* loop body processes it (168-170).
ReceiveNext(t) ==
    LET c == tasks[t].conn IN
    /\ tasks[t].pc = "listening"
    /\ inbox[c] # <<>>
    /\ ReceiveTextBody(t, Head(inbox[c]))
    /\ inbox' = [inbox EXCEPT ![c] = Tail(@)]
    /\ delivered' = [delivered EXCEPT ![c] =
                        IF CallbackInvoked(Head(inbox[c]))
                        THEN Append(@, Head(inbox[c]))
                        ELSE @]
    /\ UNCHANGED arrived

NextOrder ==
    \/ Start
    \/ StopStep
    \/ \E c \in Conns, f \in OrderFrames : Arrive(c, f)
    \/ \E t \in TaskIds : TaskStepBase(t) \/ ReceiveNext(t)

OrderSpec == Init /\ [][NextOrder]_vars

\* ------------------------------------------- coordinator: poll and seed
\* The result of one network poll: None when the fetch fails, else the
\* complete raw state of the device.
FullStates == [Keys -> GoodVals]
PollResults == {None} \cup {Some(p) : p \in FullStates}

\* A successful poll replaces the raw snapshot wholesale, reprocesses it
\* and notifies the listeners.
PollApply(d, payload) ==
    /\ raw' = [raw EXCEPT ![d] = Some(payload)]
    /\ data' = [data EXCEPT ![d] = Some(Process(payload))]
    /\ notif' = [notif EXCEPT ![d] = 1 - @]

\* Variant of SeedRaw: the seed is not kept as the raw snapshot.
SeedRawDropped(initial_state) == None

\* `coordinator.last_raw_state = dict(initial_state)` (__init__.py 135).
SeedRaw(initial_state) == Some(initial_state)

\* A record of the device list: sn = deviceSn, meta = "ok" when model, type,
\* model config and data processor are all there, state = the embedded state.
Dev(sn, meta, state) == [sn |-> sn, meta |-> meta, state |-> state]

\* Variant of DevSkipped: no test for an identifier already registered.
DevSkippedNoDupCheck(dev) == dev.meta # "ok"

\* The early returns of async_setup_device_coordinator (115-130).
DevSkipped(dev) == dev.meta # "ok" \/ dev.sn \in coords

\* Variant of SeedTruthy: the embedded state is never used.
SeedIgnored(dev) == FALSE

\* `if initial_state:` (132).
SeedTruthy(dev) == dev.state.has /\ DOMAIN dev.state.m # {}

\* Variant of SetupDeviceRaises: a failed poll raises on the seed path too.
SetupDeviceRaisesAnyPoll(dev, pr) ==
    /\ ~DevSkipped(dev)
    /\ ~pr.has
    /\ (SeedTruthy(dev) => ProcessorFails(dev.state.m))

\* The call raises: async_config_entry_first_refresh turns a failed first
\* poll into ConfigEntryNotReady (147), which nothing catches.
SetupDeviceRaises(dev, pr) ==
    ~DevSkipped(dev) /\ ~SeedTruthy(dev) /\ ~pr.has

\* The device's own pipeline failed: seed rejected, or first poll failed.
SetupDeviceFailed(dev, pr) ==
    /\ ~DevSkipped(dev)
    /\ IF SeedTruthy(dev) THEN ProcessorFails(dev.state.m) ELSE ~pr.has

\* async_setup_device_coordinator(hass, client, device, coordinators)
\* (102-149) as one step; pr is the result of the poll it may perform.
SetupDeviceCoordinator(dev, pr) ==
    LET sn == dev.sn IN
    IF DevSkipped(dev)
    THEN UNCHANGED <<coords, raw, data, notif, pollCount>>
    ELSE IF SeedTruthy(dev)
    THEN IF ~ProcessorFails(dev.state.m)
         THEN /\ raw' = [raw EXCEPT ![sn] = SeedRaw(dev.state.m)]
              /\ data' = [data EXCEPT ![sn] = Some(Process(dev.state.m))]
              /\ notif' = [notif EXCEPT ![sn] = 1 - @]
              /\ coords' = coords \cup {sn}
              /\ UNCHANGED pollCount
         ELSE \* the processor raised: async_request_refresh (139-145)
              /\ pollCount' = [pollCount EXCEPT ![sn] = @ + 1]
              /\ IF pr.has
                 THEN PollApply(sn, pr.m)
                 ELSE /\ raw' = [raw EXCEPT ![sn] = SeedRaw(dev.state.m)]
                      /\ UNCHANGED <<data, notif>>
              /\ coords' = coords \cup {sn}
    ELSE \* async_config_entry_first_refresh (147)
         /\ pollCount' = [pollCount EXCEPT ![sn] = @ + 1]
         /\ IF pr.has
            THEN PollApply(sn, pr.m) /\ coords' = coords \cup {sn}
            ELSE UNCHANGED <<coords, raw, data, notif>>

\* What the call writes to the raw snapshot, as a log entry (<<>> if nothing).
SetupWrites(dev, pr) ==
    IF DevSkipped(dev) THEN <<>>
    ELSE IF SeedTruthy(dev)
    THEN IF ProcessorFails(dev.state.m) /\ pr.has
         THEN <<[src |-> "seed", m |-> dev.state.m], [src |-> "poll", m |-> pr.m]>>
         ELSE <<[src |-> "seed", m |-> dev.state.m]>>
    ELSE IF pr.has THEN <<[src |-> "poll", m |-> pr.m]>> ELSE <<>>

\* --------------------------------------- one coordinator, two channels
MaxOps == 3         \* writes to the raw snapshot that are followed
MaxPolls == 2       \* network polls per device

PartialUpdates ==
    {[k \in S |-> 0] : S \in (SUBSET Keys) \ {{}}}
    \cup {Upd(k, v) : k \in Keys, v \in {1, BadVal}}
    \cup {[k \in Keys |-> 1]}

SeedStates ==
    { None, Some(NoData), Some(SeedState), Some(Upd("power", 0)),
      Some([k \in Keys |-> IF k = "power" THEN BadVal ELSE 0]) }

\* The coordinator under observation.
TheDev == "A"

InitCoord ==
    /\ InitWs
    /\ setupPc = "devices"
    /\ devList \in {<<Dev(TheDev, "ok", st)>> : st \in SeedStates}
    /\ devIdx = 1
    /\ websocket = "unset"
    /\ failedDevs = {}
    /\ log = <<>>
    /\ pollCount = [d \in Devices |-> 0]
    /\ pollPc = [d \in Devices |-> "idle"]
    /\ coords = {}
    /\ raw = [d \in Devices |-> None]
    /\ data = [d \in Devices |-> None]
    /\ notif = [d \in Devices |-> 0]

\* The coordinator is set up from its device record (78-79).
CoordSetup(pr) ==
    /\ setupPc = "devices"
    /\ devIdx = 1
    /\ SetupDeviceCoordinator(devList[1], pr)
    /\ log' = SetupWrites(devList[1], pr)
    /\ failedDevs' = IF SetupDeviceFailed(devList[1], pr) THEN {devList[1].sn} ELSE {}
    /\ setupPc' = IF SetupDeviceRaises(devList[1], pr) THEN "device_not_ready" ELSE "done"
    /\ devIdx' = 2
    /\ UNCHANGED netVars
    /\ ev' = Ev("setup_device", 0)
    /\ UNCHANGED <<pollPc, devList, websocket>>
    /\ UNCHANGED wsVars

\* The scheduler starts a poll of device d.
PollBegin(d) ==
    /\ setupPc = "done"
    /\ d \in coords
    /\ pollPc[d] = "idle"
    /\ pollCount[d] < MaxPolls
    /\ pollPc' = [pollPc EXCEPT ![d] = "fetching"]
    /\ pollCount' = [pollCount EXCEPT ![d] = @ + 1]
    /\ UNCHANGED netVars
    /\ ev' = Ev("poll_begin", 0)
    /\ UNCHANGED <<coords, raw, data, notif>>
    /\ UNCHANGED setupVars
    /\ UNCHANGED wsVars

\* The poll of device d completes with pr.
PollEnd(d, pr) ==
    /\ pollPc[d] = "fetching"
    /\ pollPc' = [pollPc EXCEPT ![d] = "idle"]
    /\ IF pr.has
       THEN /\ Len(log) < MaxOps
            /\ PollApply(d, pr.m)
            /\ log' = Append(log, [src |-> "poll", m |-> pr.m])
       ELSE UNCHANGED <<raw, data, notif, log>>
    /\ UNCHANGED netVars
    /\ ev' = Ev("poll_end", 0)
    /\ UNCHANGED <<coords, pollCount, setupPc, devList, devIdx, websocket, failedDevs>>
    /\ UNCHANGED wsVars

\* The transport delivers a decoded frame: on_ws_message(sn, upd).
Push(sn, upd) ==
    /\ setupPc = "done"
    /\ Len(log) < MaxOps
    /\ OnWsMessage(sn, upd)
    /\ log' = IF sn = TheDev /\ OnWsMessageResult(sn, upd) = "applied"
              THEN Append(log, [src |-> "push", m |-> upd])
              ELSE log
    /\ UNCHANGED netVars
    /\ ev' = [op |-> "push", t |-> 0, cls |-> "-",
              res |-> OnWsMessageResult(sn, upd), sn |-> sn, upd |-> upd]
    /\ UNCHANGED <<setupPc, devList, devIdx, websocket, failedDevs>>
    /\ UNCHANGED wsVars

NextCoord ==
    \/ \E pr \in PollResults : CoordSetup(pr)
    \/ PollBegin(TheDev)
    \/ \E pr \in PollResults : PollEnd(TheDev, pr)
    \/ \E sn \in {TheDev, "UNKNOWN"}, upd \in PartialUpdates : Push(sn, upd)

CoordSpec == InitCoord /\ [][NextCoord]_vars

\* ------------------------------------------- startup and shutdown
BadSeed == [k \in Keys |-> IF k = "power" THEN BadVal ELSE 0]

\* Device lists the login may return.
DeviceLists ==
    { <<>>,
      <<Dev("A", "ok", Some(SeedState)), Dev("B", "ok", Some(SeedState))>>,
      <<Dev("A", "ok", None), Dev("B", "ok", Some(SeedState))>>,
      <<Dev("A", "ok", Some(BadSeed)), Dev("B", "ok", None)>>,
      <<Dev("A", "ok", Some(SeedState)), Dev("A", "ok", None)>>,
      <<Dev("A", "no_processor", Some(SeedState)), Dev("B", "ok", Some(NoData))>> }

SetupPollResults == {None, Some([k \in Keys |-> 1])}
SetupFrames ==
    {NonObj("null"), Obj("A", Dict(Upd("mode", 1))), Obj("UNKNOWN", Dict(Upd("power", 1)))}

InitSetup ==
    /\ InitWs
    /\ setupPc = "login"
    /\ devList \in DeviceLists
    /\ devIdx = 1
    /\ websocket = "unset"
    /\ failedDevs = {}
    /\ log = <<>>
    /\ pollCount = [d \in Devices |-> 0]
    /\ pollPc = [d \in Devices |-> "idle"]
    /\ coords = {}
    /\ raw = [d \in Devices |-> None]
    /\ data = [d \in Devices |-> None]
    /\ notif = [d \in Devices |-> 0]

\* async_login (48-67, 75): the device list, or one of the two startup errors.
Login(outcome) ==
    /\ setupPc = "login"
    /\ setupPc' = CASE outcome = "ok" -> "devices"
                    [] outcome = "auth" -> "auth_failed"
                    [] OTHER -> "login_not_ready"
    /\ UNCHANGED netVars
    /\ ev' = Ev("login", 0)
    /\ UNCHANGED <<devList, devIdx, websocket, failedDevs, log>>
    /\ UNCHANGED <<coordVars, wsVars>>

\* One turn of `for device in devices` (78-79); an exception of the call
\* leaves async_setup_entry.
SetupDevice(pr) ==
    /\ setupPc = "devices"
    /\ devIdx <= Len(devList)
    /\ SetupDeviceCoordinator(devList[devIdx], pr)
    /\ failedDevs' = IF SetupDeviceFailed(devList[devIdx], pr)
                     THEN failedDevs \cup {devList[devIdx].sn}
                     ELSE failedDevs
    /\ setupPc' = IF SetupDeviceRaises(devList[devIdx], pr)
                  THEN "device_not_ready"
                  ELSE "devices"
    /\ devIdx' = devIdx + 1
    /\ UNCHANGED netVars
    /\ ev' = Ev("setup_device", 0)
    /\ UNCHANGED <<pollPc, devList, websocket, log>>
    /\ UNCHANGED wsVars

\* What the app-api login exchange yields (websocket.py 73-98).  net: the
\* request completes, or raises aiohttp.ClientError / TimeoutError; status:
\* the HTTP status; json: what resp.json() makes of the body ("ctype" = not
\* JSON content, ContentTypeError; "invalid" = undecodable, JSONDecodeError);
\* code, data, token: the fields of the decoded object (data: "dict",
\* "absent" or "null"; token: a string, "" or "<none>" when missing).
AppResp(net, status, json, code, dat, token) ==
    [net |-> net, status |-> status, json |-> json, code |-> code,
     data |-> dat, token |-> token]

AppResponses ==
    { AppResp("ok", 200, "object", 0, "dict", "tok"),
      AppResp("client_error", 0, "-", 0, "-", "-"),
      AppResp("timeout", 0, "-", 0, "-", "-"),
      AppResp("ok", 401, "object", 1, "absent", "<none>"),
      AppResp("ok", 200, "ctype", 0, "-", "-"),
      AppResp("ok", 200, "invalid", 0, "-", "-"),
      AppResp("ok", 200, "array", 0, "-", "-"),
      AppResp("ok", 200, "object", 1, "absent", "<none>"),
      AppResp("ok", 200, "object", 0, "absent", "<none>"),
      AppResp("ok", 200, "object", 0, "null", "<none>"),
      AppResp("ok", 200, "object", 0, "dict", "<none>"),
      AppResp("ok", 200, "object", 0, "dict", "") }

\* async_login_app_api (websocket.py 42-98) followed by `if not app_token`
\* (__init__.py 167): "token", "none" (None or an empty token), or "raise"
\* when an exception other than ClientError / TimeoutError escapes.
AsyncLoginAppApi(r) ==
    IF r.net # "ok" THEN "none"                        \* except (96-98)
    ELSE IF r.status # 200 THEN "none"                 \* 82-84
    ELSE IF r.json = "ctype" THEN "none"               \* a ClientError (96)
    ELSE IF r.json = "invalid" THEN "raise"            \* JSONDecodeError (85)
    ELSE IF r.json # "object" THEN "raise"             \* data.get: AttributeError (86)
    ELSE IF r.code # 0 THEN "none"                     \* 86-91
    ELSE IF r.data = "null" THEN "raise"               \* None.get: AttributeError (92)
    ELSE IF r.data = "absent" THEN "none"              \* {}.get -> None
    ELSE IF r.token \in {"<none>", ""} THEN "none"
    ELSE "token"

\* Variant of AllDevicesSetUp: the websocket is created without waiting
\* for the device loop.
AllDevicesSetUpEarly == TRUE

\* The device loop of async_setup_entry (78-79) has run to its end.
AllDevicesSetUp == devIdx > Len(devList)

\* _async_create_websocket (82-84, 152-180): a DreoWebSocket when the
\* app-api login yields a token, None when it yields none; an exception of
\* the login leaves async_setup_entry.
CreateWebsocket(resp) ==
    /\ setupPc = "devices"
    /\ AllDevicesSetUp
    /\ LET out == AsyncLoginAppApi(resp) IN
       /\ websocket' = CASE out = "token" -> "created"
                         [] out = "none" -> "none"
                         [] OTHER -> websocket
       /\ setupPc' = IF out = "raise" THEN "create_raised" ELSE "platforms"
       /\ UNCHANGED netVars
       /\ ev' = [Ev("create_websocket", 0) EXCEPT !.res = out]
    /\ UNCHANGED <<devList, devIdx, failedDevs, log>>
    /\ UNCHANGED <<coordVars, wsVars>>

\* The platforms are set up; the listeners of every coordinator that has
\* data are notified and the websocket, if any, is started (86-99).
FinishSetup ==
    /\ setupPc = "platforms"
    /\ notif' = [d \in Devices |->
                    IF d \in coords /\ data[d].has THEN 1 - notif[d] ELSE notif[d]]
    /\ IF websocket = "created"
       THEN StartFields
       ELSE UNCHANGED wsVars
    /\ setupPc' = "done"
    /\ UNCHANGED netVars
    /\ ev' = Ev("finish_setup", 0)
    /\ UNCHANGED <<coords, raw, data, pollCount, pollPc>>
    /\ UNCHANGED <<devList, devIdx, websocket, failedDevs, log>>

\* async_unload_entry (183-189): stop the websocket, if any, ...
UnloadBegin ==
    /\ setupPc = "done"
    /\ IF websocket = "created"
       THEN StopCallFields /\ setupPc' = "stopping"
       ELSE UNCHANGED wsVars /\ setupPc' = "unloaded"
    /\ UNCHANGED netVars
    /\ ev' = Ev("unload", 0)
    /\ UNCHANGED <<devList, devIdx, websocket, failedDevs, log>>
    /\ UNCHANGED coordVars

\* ... and, once stop() has returned, unload the platforms.
UnloadPlatforms ==
    /\ setupPc = "stopping"
    /\ stopPc = "idle"
    /\ setupPc' = "unloaded"
    /\ UNCHANGED netVars
    /\ ev' = Ev("unload_platforms", 0)
    /\ UNCHANGED <<devList, devIdx, websocket, failedDevs, log>>
    /\ UNCHANGED <<coordVars, wsVars>>

NextSetup ==
    \/ \E outcome \in {"ok", "auth", "comm"} : Login(outcome)
    \/ \E pr \in SetupPollResults : SetupDevice(pr)
    \/ \E resp \in AppResponses : CreateWebsocket(resp)
    \/ FinishSetup
    \/ UnloadBegin
    \/ StopAfterWsClose
    \/ StopAfterSessionClose
    \/ UnloadPlatforms
    \/ \E t \in TaskIds : TaskStepOver(t, SetupFrames)

SetupSpec == InitSetup /\ [][NextSetup]_vars

\* The `connected` property (websocket.py 119-122) and the flag the
\* diagnostics report (diagnostics.py 35-37).
Connected == wsRef # 0 /\ wsSt[wsRef] # "closed"
WebsocketConnected == IF websocket = "created" THEN Connected ELSE FALSE

\* ---------------------------------------------------------------- claims
Alive(t) == tasks[t].pc \in {"new", "connecting", "listening", "closing", "backoff"}
Inside(t) == tasks[t].pc \in {"connecting", "listening", "closing"}
Terminal(t) == tasks[t].pc \in {"done", "cancelled", "crashed"}
MalformedClasses == {"notjson", "nonobject", "nodevice", "badreported"}

\* C1: a malformed text frame (not JSON, JSON that is no object, no device
\* identifier, `reported` missing / no mapping / empty) is dropped: the
\* callback is not invoked and the session that read it keeps listening.
C1_MalformedFrameDropped ==
    (ev.op = "text" /\ ev.cls \in MalformedClasses)
        => (ev.res = "dropped" /\ tasks[ev.t].pc = "listening")

\* C2: while started and never stopped, the supervisor never leaves its
\* loop: every exit of _connect_and_listen puts it in Backoff, the only
\* step out of Backoff is one new connect attempt, and attempts = exits + 1
\* whenever a session is in progress (N failures, N+1 attempts).
C2_ReconnectForever ==
    /\ []((nStarts = 1 /\ nStops = 0) =>
            /\ Alive(1)
            /\ nConn = nExits + (IF Inside(1) THEN 1 ELSE 0))
    /\ [][(nStarts = 1 /\ nStops' = 0) =>
            /\ (nExits' # nExits => (nExits' = nExits + 1 /\ tasks'[1].pc = "backoff"))
            /\ ((tasks[1].pc = "backoff" /\ tasks'[1].pc # "backoff")
                   => (tasks'[1].pc = "connecting" /\ nConn' = nConn + 1))]_vars

C2_Witness ==
    nStops = 0 /\ nExits = 2 /\ nConn = 3 /\ tasks[1].pc = "connecting"

\* C3: once stop() has been invoked (and start() not called again), no
\* step starts a connection attempt.
C3_NoConnectAfterStop == [][(stopSince /\ stopSince') => nConn' = nConn]_vars

C3_Witness ==
    /\ stopSince /\ nStarts = 1 /\ nConn >= 1 /\ nConn < MaxConn
    /\ nExits >= 1 /\ tasks[1].pc = "done"

\* C4: stop() is idempotent: after a completed stop() the engine is not
\* running, holds no open socket or session and has no supervisor task that
\* is not finished or cancelled; a further stop() changes nothing.
StopStepTaken ==
    /\ nStarts' = nStarts
    /\ (nStops' # nStops \/ stopPc' # stopPc \/ stopsDone' # stopsDone)

C4_StopIdempotent ==
    /\ []((stopsDone >= 1 /\ stopPc = "idle") =>
            /\ ~running
            /\ (wsRef = 0 \/ wsSt[wsRef] = "closed")
            /\ (sessRef = 0 \/ sessClosed[sessRef])
            /\ (taskRef # 0 => (Terminal(taskRef) \/ tasks[taskRef].cancel)))
    /\ [][(stopsDone >= 1 /\ StopStepTaken) =>
            UNCHANGED <<running, wsRef, sessRef, taskRef, sessClosed, wsSt, tasks>>]_vars

C4_Witness == stopsDone = 2 /\ stopPc = "idle" /\ nStarts = 1 /\ nConn >= 1

\* C5: at most one connection session exists at a time: at most one
\* supervisor loop that is neither finished nor being cancelled, and at most
\* one session that is open or being opened.
LiveLoops == {t \in TaskIds : Alive(t) /\ ~tasks[t].cancel}
OpenSessions == {c \in Conns : c <= nConn /\ ~sessClosed[c]}

C5_AtMostOneSession ==
    /\ Cardinality(LiveLoops) <= 1
    /\ Cardinality(OpenSessions) <= 1

C9_CallbackFailureContained ==
    (ev.op = "text" /\ ev.res = "cb_raised") => tasks[ev.t].pc = "listening"

\* C7: the raw snapshot holds, for every key written by any completed call
\* (seed, poll, push), the value of the call that completed last among those
\* that wrote the key; a push leaves every key it does not carry as it was.
Written == UNION {DOMAIN log[i].m : i \in 1..Len(log)}
LatestIdx(k) ==
    CHOOSE i \in 1..Len(log) :
        /\ k \in DOMAIN log[i].m
        /\ \A j \in (i + 1)..Len(log) : k \notin DOMAIN log[j].m

C7_MergeLatestWins ==
    /\ [](\A k \in Written :
            /\ raw[TheDev].has
            /\ k \in DOMAIN raw[TheDev].m
            /\ raw[TheDev].m[k] = log[LatestIdx(k)].m[k])
    /\ [][(ev'.op = "push" /\ ev'.sn = TheDev) =>
            \A k \in (DOMAIN raw[TheDev].m) \ (DOMAIN ev'.upd) :
                /\ k \in DOMAIN raw'[TheDev].m
                /\ raw'[TheDev].m[k] = raw[TheDev].m[k]]_vars

C7_Witness ==
    /\ log = <<[src |-> "seed", m |-> SeedState], [src |-> "push", m |-> Upd("power", 1)]>>
    /\ raw[TheDev] = Some([k \in Keys |-> IF k = "power" THEN 1 ELSE 0])
    /\ pollPc[TheDev] = "fetching"

\* C8: a push whose merged snapshot the data-processor rejects leaves the
\* raw snapshot, the normalized state and the notifications as they were,
\* and the callback returns without raising.
C8_RollbackOnProcessorFailure ==
    [][(/\ ev'.op = "push"
        /\ ev'.sn \in coords
        /\ ProcessorFails(Merge(raw[ev'.sn].m, ev'.upd)))
          => (UNCHANGED <<raw, data, notif>> /\ ev'.res = "rolled_back")]_vars

C8_Witness ==
    /\ ev.op = "push" /\ ev.res = "rolled_back"
    /\ raw[TheDev].has /\ ~ProcessorFails(raw[TheDev].m) /\ Len(log) >= 2

\* C10: a failure of one device's pipeline during startup (first poll
\* failing, seed rejected) does not end startup: once async_setup_entry is
\* over, every other usable device of the list is registered and the
\* websocket has been created (or found unavailable) and started.
SetupCompleted == setupPc \in {"done", "stopping", "unloaded"}
SetupOver == SetupCompleted \/ setupPc = "device_not_ready"

C10_DeviceFailureContained ==
    SetupOver =>
        /\ \A i \in 1..Len(devList) :
              (devList[i].meta = "ok" /\ devList[i].sn \notin failedDevs)
                  => devList[i].sn \in coords
        /\ websocket # "unset"
        /\ (websocket = "created" => nStarts = 1)

\* C10 amended: a rejected seed never ends startup, and startup that runs
\* to its end has registered every usable device of the list and created
\* and started the websocket if a token was obtained; startup is abandoned
\* for a device only when that device has no usable embedded state and its
\* first poll fails, and then the device is not registered and no
\* websocket is created.
C10_OnlyFirstPollFailureAborts ==
    /\ SetupCompleted =>
          /\ \A i \in 1..Len(devList) :
                devList[i].meta = "ok" => devList[i].sn \in coords
          /\ websocket # "unset"
          /\ (websocket = "created" => nStarts = 1)
    /\ setupPc = "device_not_ready" =>
          /\ devList[devIdx - 1].meta = "ok"
          /\ ~SeedTruthy(devList[devIdx - 1])
          /\ devList[devIdx - 1].sn \notin coords
          /\ devList[devIdx - 1].sn \in failedDevs
          /\ websocket = "unset"
          /\ nStarts = 0

C10_Witness ==
    /\ setupPc = "done"
    /\ failedDevs = {"A"}
    /\ coords = {"A", "B"}
    /\ ~data["A"].has
    /\ websocket = "created"
    /\ nStarts = 1

\* The device record the last setup step handled, and whether an earlier
\* record of the list carries the same identifier.
LastDev == devList[devIdx - 1]
LastDevIsFirst == \A j \in 1..(devIdx - 2) : devList[j].sn # LastDev.sn
HasSeed(dev) == dev.meta = "ok" /\ dev.state.has /\ DOMAIN dev.state.m # {}

\* C11: when the data-processor rejects a device's embedded state, setup of
\* the device returns normally after exactly one network poll, and the
\* rejected payload is not the device's raw snapshot, whether the poll
\* succeeded or not.
C11_RejectedSeedDiscarded ==
    (/\ ev.op = "setup_device"
     /\ HasSeed(LastDev)
     /\ LastDevIsFirst
     /\ ProcessorFails(LastDev.state.m))
        => /\ setupPc = "devices"
           /\ pollCount[LastDev.sn] = 1
           /\ raw[LastDev.sn] # Some(LastDev.state.m)

\* C12: when setup of a device whose embedded state the data-processor
\* accepts returns, the device is registered, its raw snapshot is the seed,
\* its normalized state is the processed seed, and no network poll was made
\* for it.
C12_SeedWithoutPoll ==
    (/\ ev.op = "setup_device"
     /\ HasSeed(LastDev)
     /\ LastDevIsFirst
     /\ ~ProcessorFails(LastDev.state.m))
        => /\ setupPc = "devices"
           /\ LastDev.sn \in coords
           /\ raw[LastDev.sn] = Some(LastDev.state.m)
           /\ data[LastDev.sn] = Some(Process(LastDev.state.m))
           /\ pollCount[LastDev.sn] = 0

C12_Witness ==
    /\ ev.op = "setup_device"
    /\ devIdx = 3
    /\ LastDev = Dev("B", "ok", Some(SeedState))
    /\ coords = {"A", "B"}
    /\ pollCount = [d \in Devices |-> IF d = "A" THEN 1 ELSE 0]
    /\ data["B"] = Some(Process(SeedState))

\* C13: a decoded push frame whose device identifier is a string that is not
\* in the registry is a silent no-op: the callback returns without raising,
\* no coordinator's raw or normalized state changes, no listener is
\* notified, and the session that read the frame keeps listening.
C13_UnknownDeviceNoOp ==
    [][(/\ ev'.op = "text"
        /\ ev'.cls = "wellformed"
        /\ ev'.sn # "<list>"
        /\ ev'.sn \notin coords)
          => /\ ev'.res = "no_coordinator"
             /\ UNCHANGED <<coords, raw, data, notif, tasks, wsRef, sessRef,
                            sessClosed, wsSt, nExits>>
             /\ tasks'[ev'.t].pc = "listening"]_vars

C13_Witness ==
    /\ ev.op = "text" /\ ev.sn = "UNKNOWN" /\ ev.res = "no_coordinator"
    /\ tasks[1].pc = "listening" /\ nExits >= 1

\* C14: when the push-side login fails or returns no token, startup goes on
\* with push disabled (runtime_data.websocket is None); from then on no
\* session is created or started and the reported flag is false.
C14_PushAuthFailureNonFatal ==
    /\ (ev.op = "create_websocket" /\ ev.res # "token")
          => (setupPc = "platforms" /\ websocket = "none")
    /\ websocket = "none"
          => (nStarts = 0 /\ nConn = 0 /\ ~running /\ ~WebsocketConnected)

\* C15: on every socket the frames handed to the callback are, in order,
\* the decodable ones among the frames read so far, and the frames read so
\* far are a prefix of the frames that arrived: each frame is delivered in
\* the step that reads it, so the transport holds no undelivered frame when
\* the next one is read and no two frames are in processing at once.
Decodable(q) == SelectSeq(q, LAMBDA f : FrameClass(f) = "wellformed")
NRead(c) == Len(arrived[c]) - Len(inbox[c])

C15_DeliveredInArrivalOrder ==
    \A c \in Conns :
        /\ NRead(c) >= 0
        /\ inbox[c] = SubSeq(arrived[c], NRead(c) + 1, Len(arrived[c]))
        /\ delivered[c] = Decodable(SubSeq(arrived[c], 1, NRead(c)))

C15_Witness ==
    /\ delivered[1] = <<Obj("B", Dict(Upd("mode", 1))), Obj("A", Dict(Upd("power", 1)))>>
    /\ tasks[1].pc = "listening"
    /\ raw["A"].m["power"] = 1 /\ raw["B"].m["mode"] = 1

\* C16 as stated: in Backoff and after stop() has returned, every session
\* is closed, both stored references are cleared and `connected` is false.
AllSessionsClosed == \A c \in Conns : c <= nConn => sessClosed[c]
StopReturned == stopsDone >= 1 /\ stopPc = "idle"
InBackoff == \E t \in TaskIds : tasks[t].pc = "backoff"

C16_ClosedAndClearedAfterExit ==
    (InBackoff \/ StopReturned) =>
        /\ AllSessionsClosed
        /\ wsRef = 0 /\ sessRef = 0
        /\ ~Connected

\* C16 amended: `connected` is true only while the supervisor is in the
\* read loop or in the teardown of the session that owns the socket; in
\* Backoff every session is closed, both references are cleared and
\* `connected` is false; after stop() has returned every session and the
\* socket are closed and `connected` is false, while the references may
\* still be set (they are cleared by the task's own finally block).
C16_ClosedAfterExit ==
    /\ Connected => \E t \in TaskIds :
            tasks[t].pc \in {"listening", "closing"} /\ tasks[t].conn = wsRef
    /\ InBackoff =>
            (AllSessionsClosed /\ wsRef = 0 /\ sessRef = 0 /\ ~Connected)
    /\ StopReturned =>
            /\ AllSessionsClosed
            /\ (wsRef # 0 => wsSt[wsRef] = "closed")
            /\ ~Connected

C16_Witness ==
    /\ StopReturned
    /\ tasks[1].pc = "cancelled"
    /\ wsRef # 0 /\ sessRef # 0
    /\ nExits >= 1

\* C17: a keep-alive driver is live only while its session is in the read
\* loop (every exit of the loop cancels it), and a heartbeat is sent only
\* on the open socket of the session the driver was started for.
C17_PingOnlyInOwnOpenSession ==
    /\ \A t \in TaskIds : tasks[t].ping = "live" => tasks[t].pc = "listening"
    /\ (ev.op = "ping" /\ ev.res = "sent") =>
            /\ tasks[ev.t].pc = "listening"
            /\ wsRef = tasks[ev.t].conn
            /\ wsSt[wsRef] = "open"
            /\ ~sessClosed[wsRef]

C17_Witness ==
    /\ ev.op = "ping" /\ ev.res = "sent"
    /\ tasks[1].conn = 2 /\ wsRef = 2
    /\ wsSt[1] = "open" /\ sessClosed[1]

\* C18: the push session exists (started, running or connecting) only once
\* the device loop is over and every usable device of the list is
\* registered; a frame is handled only between the end of startup and the
\* beginning of shutdown; and when the platforms are unloaded stop() has
\* returned, with the engine not running and every session closed.
C18_PushAfterRegistryStopBeforeUnload ==
    /\ (nStarts >= 1 \/ nConn >= 1 \/ running) =>
            /\ SetupCompleted
            /\ devIdx > Len(devList)
            /\ \A i \in 1..Len(devList) :
                   devList[i].meta = "ok" => devList[i].sn \in coords
    /\ ev.op = "text" => setupPc = "done"
    /\ (setupPc = "unloaded" /\ websocket = "created") =>
            /\ stopsDone >= 1 /\ stopPc = "idle"
            /\ ~running
            /\ ~WebsocketConnected
            /\ \A c \in Conns : c <= nConn => sessClosed[c]

C18_Witness ==
    /\ setupPc = "unloaded"
    /\ websocket = "created"
    /\ devList = <<Dev("A", "ok", Some(SeedState)), Dev("B", "ok", Some(SeedState))>>
    /\ coords = {"A", "B"}
    /\ raw["A"] = Some([k \in Keys |-> IF k = "mode" THEN 1 ELSE 0])

\* C19: a registry entry, once created, is never removed, and a setup call
\* leaves every registered device as it is: for a record whose identifier
\* is already registered it changes nothing and returns normally.
C19_RegistryEntryKept ==
    [][\A d \in coords :
          /\ d \in coords'
          /\ ev'.op = "setup_device" =>
                /\ raw'[d] = raw[d]
                /\ data'[d] = data[d]
                /\ notif'[d] = notif[d]
                /\ pollCount'[d] = pollCount[d]
                /\ (devList[devIdx].sn = d => setupPc' = "devices")]_vars

C19_Witness ==
    /\ ev.op = "setup_device"
    /\ devIdx = 3
    /\ devList = <<Dev("A", "ok", Some(SeedState)), Dev("A", "ok", None)>>
    /\ coords = {"A"}
    /\ raw["A"] = Some(SeedState)
    /\ data["A"] = Some(Process(SeedState))
    /\ pollCount["A"] = 0

====
